---- MODULE Spec2Model ----
(***************************************************************************)
(* A model of ga_web_scrap: the Looker Studio table scraper, the GA4       *)
(* table scraper, the date-picker navigation, the spreadsheet export and   *)
(* the run_scraper driver.  The browser (the DOM the scrapers read) is the *)
(* environment: what a lookup returns is drawn from small sets.            *)
(***************************************************************************)
EXTENDS Integers, Sequences, FiniteSets, TLC

\* ------------------------------------------------------------------ bounds
\* Rows one lookup of the table returns at most.
MaxRows == 2
\* Rows of the long Looker table that scrolls one row at a time.
MaxStream == 20
\* Days are numbered 1..MaxDay (a date is its day number).
MaxDay == 2
\* The dates iter_dates is called with are numbered 1..MaxDate.
MaxDate == 6

Days == 1..MaxDay

\* ------------------------------------------------------------------ state
\* AnalyticsScraper._scrape_table_for_language
VARIABLES
    lk_pc,          \* position in _scrape_table_for_language
    lang,           \* its argument lang
    the_date,       \* its argument the_date
    records_map,    \* the dict, as the sequence of its values in insertion order
    max_rank_seen,
    page_idx,
    scroll_i,       \* the scroll loop's i: passes completed on this page
    consecutive_no_new_records,
    lk_result,      \* the returned list
    \* what the last steps observed (history, read by the properties only)
    pass_hist,      \* <<whether the pass before last, the last pass left the count unchanged>>
    rows_empty,     \* the last lookup of the rows returned none
    reseen,         \* a row was read whose key the dict already held
    pager_obs,      \* what the last look at the pager found
    next_clicks,    \* calls of next_btn.click()
    enabled_seen,   \* looks at the pager that found "next" present and not disabled
    lk_exc,         \* what raised: "none", a browser "call", or the reading of a "row"
    lk_rows_ok      \* every pass so far recorded its well-formed rows, and only them

lookerVars == <<lk_pc, lang, the_date, records_map, max_rank_seen, page_idx,
                scroll_i, consecutive_no_new_records, lk_result, pass_hist,
                rows_empty, reseen, pager_obs, next_clicks, enabled_seen,
                lk_exc, lk_rows_ok>>

\* GA4Scraper.scrape_data
VARIABLES
    ga_pc,          \* position in scrape_data
    ga_date,        \* its argument the_date
    ga_records,     \* the list records
    current_page,
    ga_result,      \* the returned list
    ga_skipped,     \* a row of the last page read produced no record
    ga_defaults_ok  \* every page so far recorded its rows of unparsed text with 0

ga4Vars == <<ga_pc, ga_date, ga_records, current_page, ga_result, ga_skipped,
             ga_defaults_ok>>

\* AnalyticsScraper._click_day and _shift_calendar_to_month, and the calendar
\* widget they drive
VARIABLES
    cal_pc,         \* position in _click_day
    target,         \* its argument target: [year, month, day]
    cal_view,       \* the widget's view: "multi-year", "year" (the months), "month" (the days)
    cal_year,       \* the year the widget shows
    cal_month,      \* the month the widget shows
    cal_locale,     \* the language of the widget's month names
    steps,          \* turns of "for _ in range(max_steps)" begun
    cal_err,        \* the exception that left _click_day
    cal_clicked,    \* what the last click was made on
    day_clicks,     \* clicks on a day cell
    seen_target,    \* a header read found the day view of the target's month and year
    ideal_from,     \* months between the month first shown and the target, while the
                    \* call began in day view and every turn since read the header
                    \* and clicked an enabled button that moved one month; else -1
    nav_obs,        \* the last turn in day view: where the target lay, whether the
                    \* button towards it was missing or disabled, what was clicked
    cell_obs        \* the last turn in the year-range or the month-selection view:
                    \* the view, whether the widget showed the target's cell, what
                    \* the turn did

calVars == <<cal_pc, target, cal_view, cal_year, cal_month, cal_locale, steps,
             cal_err, cal_clicked, day_clicks, seen_target, ideal_from, nav_obs,
             cell_obs>>

\* export_pageviews_to_excel
VARIABLES
    ex_pc,          \* position in export_pageviews_to_excel
    ex_records,     \* its argument records
    ex_range_start, \* its argument range_start (None: 0)
    ex_range_end,   \* its argument range_end (None: 0)
    sheet           \* the sheet "Data" of the written file, NoSheet while there is none

exportVars == <<ex_pc, ex_records, ex_range_start, ex_range_end, sheet>>

\* run_scraper
VARIABLES
    run_pc,         \* position in run_scraper
    start,          \* its argument start
    end,            \* its argument end
    mode,           \* its argument mode
    sources,        \* its argument sources, as a set
    driver,         \* the browser session: "none", "open", "quit"
    all_records,
    day_i,          \* the place of the running "for d in iter_dates(start, end)"
    run_exc,        \* "none", or what became of a raised exception
    \* the history of the run (read by the properties only)
    ops,            \* the browser and export operations that returned, in order
    exports,        \* calls of export_pageviews_to_excel
    raised_in,      \* the step that raised
    ops_at_raise,   \* Len(ops) when it raised
    collected       \* every record a scrape returned: [rec, src, day], in order

runVars == <<run_pc, start, end, mode, sources, driver, all_records, day_i, run_exc,
             ops, exports, raised_in, ops_at_raise, collected>>

\* iter_dates
VARIABLES
    it_pc,          \* position in the generator
    it_start,       \* its argument start
    it_end,         \* its argument end
    current,
    it_yielded,     \* the dates yielded so far, in order
    it_err          \* the exception it raised

iterVars == <<it_pc, it_start, it_end, current, it_yielded, it_err>>

\* AnalyticsScraper.set_date_range and _ensure_fixed_mode, and the date picker
\* dialog they drive
VARIABLES
    dp_pc,          \* position in set_date_range (and in _ensure_fixed_mode)
    dp_start,       \* its argument start
    dp_end,         \* its argument end
    dp_mode,        \* the mode the dialog is in: "fixed", "auto", "advanced"
    dp_events,      \* what was done to the page so far, in order
    dp_err,         \* the exception that left set_date_range
    dp_cals,        \* len(calendars), -1 before the lookup
    \* the history of _ensure_fixed_mode (read by the properties only)
    fm_end,         \* how it ended: "none", "already", "switched", "warned", "raised"
    fm_clicks,      \* the clicks it made
    fm_was_fixed    \* the dialog was in Fixed mode when it was called

pickerVars == <<dp_pc, dp_start, dp_end, dp_mode, dp_events, dp_err, dp_cals,
                fm_end, fm_clicks, fm_was_fixed>>

vars == <<lookerVars, ga4Vars, calVars, exportVars, runVars, iterVars, pickerVars>>

\* What a step of one routine leaves alone: the state of the others.
notLooker == <<ga4Vars, calVars, exportVars, runVars, iterVars, pickerVars>>
notGa4 == <<lookerVars, calVars, exportVars, runVars, iterVars, pickerVars>>
notCal == <<lookerVars, ga4Vars, exportVars, runVars, iterVars, pickerVars>>
notExport == <<lookerVars, ga4Vars, calVars, runVars, iterVars, pickerVars>>
notRun == <<lookerVars, ga4Vars, calVars, iterVars, pickerVars>>
notIter == <<lookerVars, ga4Vars, calVars, exportVars, runVars, pickerVars>>
notPicker == <<lookerVars, ga4Vars, calVars, exportVars, runVars, iterVars>>

\* ------------------------------------------------------------- cell texts
\* The text of a cell: a decimal number (its digits, with the rank's "." or
\* the thousands "," the code strips) or something that is no number.
Num(n) == [k |-> "digits", n |-> n]
Junk == [k |-> "junk", n |-> 0]

Signed(n) == [k |-> "signed", n |-> n]

\* Digit characters that are no decimal digits, such as a superscript two:
\* str.isdigit() is true of them, and int() raises ValueError.
Super == [k |-> "super", n |-> 0]

\* str.isdigit() after the separators are stripped
IsDigit(t) == t.k \in {"digits", "super"}

\* Whether int(text) returns (a signed number is no isdigit() text, and parses)
IntParses(t) == t.k \in {"digits", "signed"}

\* int(text) of a text that parses
IntOf(t) == t.n

\* ------------------------------------------------------ the pageview record
PageViewRecord(d, lg, rank, url, views, source) ==
    [date |-> d, language |-> lg, rank |-> rank, url |-> url,
     views |-> views, source |-> source]

\* ================================================================ Looker
\* AnalyticsScraper._scrape_table_for_language

max_pages == 10

\* One scroll pass more than the code's.
max_scrolls_more == 40 + 1

max_scrolls == 40

\* A row of the Looker table as one pass reads it: its cells, or a stale
\* reference raised while reading it.
LookerRow(stale, ncells, rank, a, cell, views) ==
    [stale |-> stale, ncells |-> ncells, rank_text |-> rank,
     a_text |-> a, cell_text |-> cell, views_text |-> views]

NoLink == "<no a>"

LookerRowKinds ==
    { LookerRow(FALSE, 3, Num(1), "/a", "/a", Num(5)),
      LookerRow(FALSE, 3, Num(1), "/a", "/a", Junk),
      LookerRow(FALSE, 3, Num(2), NoLink, "/a", Num(7)),
      LookerRow(FALSE, 3, Junk, NoLink, "Grand total", Num(12)),
      LookerRow(FALSE, 2, Num(2), "/b", "/b", Num(5)),
      LookerRow(TRUE, 3, Num(2), "/b", "/b", Num(5)),
      LookerRow(FALSE, 3, Super, "/b", "/b", Num(5)) }

RECURSIVE SeqsUpTo(_, _)
SeqsUpTo(S, n) ==
    IF n = 0 THEN { <<>> }
    ELSE LET shorter == SeqsUpTo(S, n - 1)
         IN  shorter \cup { Append(s, x) : s \in { t \in shorter : Len(t) = n - 1 }, x \in S }

LookerRowLists == SeqsUpTo(LookerRowKinds, MaxRows)

\* A row of a long table that scrolls one row into view at a time.
StreamRow(n) == LookerRow(FALSE, 3, Num(n), "/n", "/n", Num(1))

\* What one lookup of the rows may return, given the records so far: any of
\* LookerRowLists, or, of a long table of MaxStream rows, the row read last or
\* the one after it.
RowsShown(map) ==
    IF map = <<>> THEN LookerRowLists \cup { <<StreamRow(1)>> }
    ELSE IF map[1].url = "/n"
    THEN { <<>>, <<StreamRow(Len(map))>> }
            \cup (IF Len(map) < MaxStream THEN { <<StreamRow(Len(map) + 1)>> } ELSE {})
    ELSE LookerRowLists

KeyOf(rec) == <<rec.rank, rec.url>>

HasKey(map, key) == \E j \in 1..Len(map) : KeyOf(map[j]) = key

\* records_map[key] = rec appended for every row, with no look at the key.
UpsertAppends(map, rec) == Append(map, rec)

\* records_map[key] = rec: a dict keeps one value per key, at the place the
\* key was first inserted.
Upsert(map, rec) ==
    IF HasKey(map, KeyOf(rec))
    THEN [j \in 1..Len(map) |-> IF KeyOf(map[j]) = KeyOf(rec) THEN rec ELSE map[j]]
    ELSE Append(map, rec)

\* Whether "rank = int(rank_text)" is reached and raises ValueError: the
\* rank passed isdigit(), and int() does not take it.
RowRaises(row) ==
    ~row.stale /\ row.ncells >= 3 /\ IsDigit(row.rank_text) /\ ~IntParses(row.rank_text)

\* Whether the row yields a record: three cells, a rank that passes
\* isdigit() and that int() takes, no stale reference.
RowReadable(row) ==
    ~row.stale /\ row.ncells >= 3 /\ IsDigit(row.rank_text) /\ IntParses(row.rank_text)

\* The rows read before the first one that raises.
RowsBeforeRaise(rows) ==
    LET first == CHOOSE j \in 1..Len(rows) :
                     RowRaises(rows[j]) /\ \A h \in 1..(j - 1) : ~RowRaises(rows[h])
    IN  SubSeq(rows, 1, first - 1)

UrlText(row) == IF row.a_text = NoLink THEN row.cell_text ELSE row.a_text

\* "try: views = int(views_text) except ValueError: views = 0"
ViewsOf(t) == IF IntParses(t) THEN IntOf(t) ELSE 0

RowRecord(row, lg, d) ==
    PageViewRecord(d, lg, IntOf(row.rank_text), UrlText(row),
                   ViewsOf(row.views_text), "Looker Studio")

\* The body of "for row in rows" for one row.
ProcessRow(map, row, lg, d) ==
    IF RowReadable(row) THEN Upsert(map, RowRecord(row, lg, d)) ELSE map

RECURSIVE ProcessRows(_, _, _, _)
ProcessRows(map, rows, lg, d) ==
    IF rows = <<>> THEN map
    ELSE ProcessRows(ProcessRow(map, Head(rows), lg, d), Tail(rows), lg, d)

RECURSIVE MaxRankAfter(_, _)
MaxRankAfter(m, rows) ==
    IF rows = <<>> THEN m
    ELSE LET r == Head(rows)
             m2 == IF RowReadable(r) /\ IntOf(r.rank_text) > m
                   THEN IntOf(r.rank_text) ELSE m
         IN  MaxRankAfter(m2, Tail(rows))

RECURSIVE AnyReseen(_, _, _, _)
AnyReseen(map, rows, lg, d) ==
    IF rows = <<>> THEN FALSE
    ELSE \/ RowReadable(Head(rows)) /\ HasKey(map, KeyOf(RowRecord(Head(rows), lg, d)))
         \/ AnyReseen(ProcessRow(map, Head(rows), lg, d), Tail(rows), lg, d)

\* consecutive_no_new_records after a pass
NoNewCount(c, before, after) == IF after = before THEN c + 1 ELSE 0

\* The loop left on the first pass without a new record.
StopScrollingAtOnce(c) == c >= 1

\* "if consecutive_no_new_records >= 2: break"
StopScrolling(c) == c >= 2

\* The class attribute of the "next" control, as its set of tokens.
NextClasses == { {"pageForward"}, {"pageForward", "disabled"}, {"pageForward", "disabled-look"}, {} }

\* Any class that looks like "disabled" taken for it.
IsDisabledLoose(classes) == \E c \in classes : c \in {"disabled", "disabled-look"}

\* '"disabled" in classes' over the split class attribute
IsDisabled(classes) == "disabled" \in classes

\* A row with its three cells, a decimal rank and no stale reference: what
\* the page shows, whatever the code makes of it.
WellFormed(row) == ~row.stale /\ row.ncells >= 3 /\ row.rank_text.k = "digits"

\* After a pass: each well-formed row of the pass has its record, and every
\* key not held before is the key of a well-formed row of the pass.
PassRecordedRows(before, after, rows) ==
    /\ \A j \in 1..Len(rows) :
          WellFormed(rows[j]) =>
              \E h \in 1..Len(after) :
                  /\ after[h].rank = rows[j].rank_text.n
                  /\ after[h].url \in {rows[j].a_text, rows[j].cell_text}
    /\ \A h \in 1..Len(after) :
          HasKey(before, KeyOf(after[h]))
            \/ \E j \in 1..Len(rows) :
                  WellFormed(rows[j]) /\ after[h].rank = rows[j].rank_text.n

LookerIdle ==
    /\ lk_pc = "idle"
    /\ lang = "EN"
    /\ the_date = 1
    /\ records_map = <<>>
    /\ max_rank_seen = 0
    /\ page_idx = 0
    /\ scroll_i = 0
    /\ consecutive_no_new_records = 0
    /\ lk_result = <<>>
    /\ pass_hist = <<FALSE, FALSE>>
    /\ rows_empty = FALSE
    /\ reseen = FALSE
    /\ pager_obs = "none"
    /\ next_clicks = 0
    /\ enabled_seen = 0
    /\ lk_exc = "none"
    /\ lk_rows_ok = TRUE

\* The call: lines 343-347.
LookerInit ==
    /\ lk_pc = "page"
    /\ lang \in {"EN", "FR"}
    /\ the_date = 1
    /\ records_map = <<>>
    /\ max_rank_seen = 0
    /\ page_idx = 0
    /\ scroll_i = 0
    /\ consecutive_no_new_records = 0
    /\ lk_result = <<>>
    /\ pass_hist = <<FALSE, FALSE>>
    /\ rows_empty = FALSE
    /\ reseen = FALSE
    /\ pager_obs = "none"
    /\ next_clicks = 0
    /\ enabled_seen = 0
    /\ lk_exc = "none"
    /\ lk_rows_ok = TRUE

\* An exception no handler of the function catches leaves it.
LookerRaise ==
    /\ lk_pc' = "raised"
    /\ lk_exc' = "call"
    /\ UNCHANGED <<lang, the_date, records_map, max_rank_seen, page_idx, scroll_i,
                   consecutive_no_new_records, lk_result, pass_hist, rows_empty,
                   reseen, pager_obs, next_clicks, enabled_seen, lk_rows_ok>>

\* The top of "for page_idx in range(max_pages)": the containers are looked
\* up again (which may raise), the scroll is reset, the scroll loop starts.
PageStart ==
    /\ lk_pc = "page"
    /\ \/ LookerRaise
       \/ /\ lk_pc' = "scroll"
          /\ scroll_i' = 0
          /\ consecutive_no_new_records' = 0
          /\ pass_hist' = <<FALSE, FALSE>>
          /\ rows_empty' = FALSE
          /\ pager_obs' = "none"
          /\ UNCHANGED <<lang, the_date, records_map, max_rank_seen, page_idx,
                         lk_result, reseen, next_clicks, enabled_seen, lk_exc, lk_rows_ok>>
    /\ UNCHANGED notLooker

\* One pass of "for i in range(max_scrolls)".
ScrollPass ==
    /\ lk_pc = "scroll"
    /\ \/ LookerRaise
       \/ \E rows \in RowsShown(records_map) :
            IF rows = <<>>
            THEN /\ rows_empty' = TRUE
                 /\ lk_pc' = "pager"
                 /\ UNCHANGED <<lang, the_date, records_map, max_rank_seen, page_idx,
                                scroll_i, consecutive_no_new_records, lk_result,
                                pass_hist, reseen, pager_obs, next_clicks, enabled_seen,
                                lk_exc, lk_rows_ok>>
            ELSE IF \E j \in 1..Len(rows) : RowRaises(rows[j])
            THEN \* int(rank_text) raises ValueError, which no handler catches
                 /\ records_map' = ProcessRows(records_map, RowsBeforeRaise(rows), lang, the_date)
                 /\ max_rank_seen' = MaxRankAfter(max_rank_seen, RowsBeforeRaise(rows))
                 /\ lk_pc' = "raised"
                 /\ lk_exc' = "row"
                 /\ UNCHANGED <<lang, the_date, page_idx, scroll_i,
                                consecutive_no_new_records, lk_result, pass_hist,
                                rows_empty, reseen, pager_obs, next_clicks, enabled_seen,
                                lk_rows_ok>>
            ELSE LET before_count == Len(records_map)
                     map2 == ProcessRows(records_map, rows, lang, the_date)
                     after_count == Len(map2)
                     c2 == NoNewCount(consecutive_no_new_records, before_count, after_count)
                 IN  /\ records_map' = map2
                     /\ max_rank_seen' = MaxRankAfter(max_rank_seen, rows)
                     /\ reseen' = (reseen \/ AnyReseen(records_map, rows, lang, the_date))
                     /\ consecutive_no_new_records' = c2
                     /\ pass_hist' = <<pass_hist[2], after_count = before_count>>
                     /\ rows_empty' = FALSE
                     /\ scroll_i' = scroll_i + 1
                     /\ lk_pc' = IF StopScrolling(c2) \/ scroll_i + 1 >= max_scrolls
                                 THEN "pager" ELSE "scroll"
                     /\ lk_rows_ok' = (lk_rows_ok /\ PassRecordedRows(records_map, map2, rows))
                     /\ UNCHANGED <<lang, the_date, page_idx, lk_result, pager_obs,
                                    next_clicks, enabled_seen, lk_exc>>
    /\ UNCHANGED notLooker

\* The pagination of a page: lines 443-457.  pager_obs and enabled_seen record
\* what the page showed; whether the code breaks or clicks is IsDisabled's.
Pager ==
    /\ lk_pc = "pager"
    /\ \/ /\ pager_obs' = "missing"
          /\ lk_pc' = "return"
          /\ UNCHANGED <<page_idx, next_clicks, enabled_seen, lk_exc>>
       \/ \E classes \in NextClasses :
            /\ pager_obs' = IF "disabled" \in classes THEN "disabled" ELSE "enabled"
            /\ enabled_seen' = IF "disabled" \in classes THEN enabled_seen ELSE enabled_seen + 1
            /\ IF IsDisabled(classes)
               THEN /\ lk_pc' = "return"
                    /\ UNCHANGED <<page_idx, next_clicks, lk_exc>>
               ELSE /\ next_clicks' = next_clicks + 1
                    /\ \/ /\ lk_pc' = "raised"
                          /\ lk_exc' = "call"
                          /\ UNCHANGED page_idx
                       \/ /\ page_idx' = page_idx + 1
                          /\ lk_pc' = IF page_idx + 1 >= max_pages THEN "return" ELSE "page"
                          /\ UNCHANGED lk_exc
    /\ UNCHANGED <<lang, the_date, records_map, max_rank_seen, scroll_i,
                   consecutive_no_new_records, lk_result, pass_hist, rows_empty, reseen,
                   lk_rows_ok>>
    /\ UNCHANGED notLooker

\* "records = list(records_map.values()); return records"
LookerReturn ==
    /\ lk_pc = "return"
    /\ lk_result' = records_map
    /\ lk_pc' = "done"
    /\ UNCHANGED <<lang, the_date, records_map, max_rank_seen, page_idx, scroll_i,
                   consecutive_no_new_records, pass_hist, rows_empty, reseen,
                   pager_obs, next_clicks, enabled_seen, lk_exc, lk_rows_ok>>
    /\ UNCHANGED notLooker

LookerNext == PageStart \/ ScrollPass \/ Pager \/ LookerReturn

\* ---------------------------------------------------------------- C1
\* C1: the list _scrape_table_for_language returns holds no two records with
\* the same (rank, url) pair, whatever rows the passes and pages showed.
C1_ReturnedKeysUnique ==
    lk_pc = "done" =>
        \A m, n \in 1..Len(lk_result) : m # n => KeyOf(lk_result[m]) # KeyOf(lk_result[n])

\* A return of two records after a row was read again on a later pass or page.
C1_Witness ==
    lk_pc = "done" /\ Len(lk_result) >= 2 /\ reseen /\ page_idx >= 1

\* ---------------------------------------------------------------- C3
\* C3 as stated: the scroll loop of a page is left only after two successive
\* passes that each left the number of unique records unchanged.
C3_LeavesOnlyAfterTwoIdlePasses ==
    lk_pc = "pager" => pass_hist = <<TRUE, TRUE>>

\* C3 amended: the scroll loop of a page is left after two successive passes
\* that left the number of unique records unchanged, or when a lookup returns
\* no row, or after max_scrolls passes; it goes on otherwise, and a pass that
\* adds a record resets the count of unproductive passes to zero.
C3_ScrollLoopExit ==
    /\ lk_pc = "pager" =>
          pass_hist = <<TRUE, TRUE>> \/ rows_empty \/ scroll_i = max_scrolls
    /\ lk_pc = "scroll" => pass_hist # <<TRUE, TRUE>>
    /\ (lk_pc \in {"scroll", "pager"} /\ scroll_i > 0 /\ ~pass_hist[2]) =>
          consecutive_no_new_records = 0

\* A page left after a pass that added a record and two that added none.
C3_Witness ==
    /\ lk_pc = "pager" /\ pass_hist = <<TRUE, TRUE>> /\ ~rows_empty
    /\ scroll_i >= 3 /\ Len(records_map) >= 1

\* ---------------------------------------------------------------- C4
\* C4 as stated: pagination stops only on a page whose "next" control carries
\* the class "disabled".
C4_StopsOnlyOnDisabled ==
    lk_pc \in {"return", "done"} => pager_obs = "disabled"

\* C4 amended: "next" is clicked on every page where it is present and does
\* not carry the class "disabled", and pagination stops on a page whose "next"
\* carries "disabled", on a page without pagination controls, or after
\* max_pages pages.
C4_PaginationExit ==
    /\ next_clicks = enabled_seen
    /\ lk_pc \in {"return", "done"} =>
          \/ pager_obs = "disabled"
          \/ pager_obs = "missing"
          \/ pager_obs = "enabled" /\ page_idx = max_pages
    /\ lk_pc \in {"page", "scroll", "pager"} => next_clicks = page_idx

\* A return on a page whose "next" is disabled, after "next" was clicked.
C4_Witness ==
    lk_pc = "done" /\ pager_obs = "disabled" /\ next_clicks >= 1

\* =================================================================== GA4
\* GA4Scraper.scrape_data

ga_max_pages == 100

\* Records one call collects at most in the model: a page shows only rows that
\* keep the list within it.
MaxGaRecords == 2

NoCell == [k |-> "nocell", n |-> 0]

\* A row of the GA4 table: the text of its page-path cell (or the lookup of
\* the cell fails), of its row-index cell and of its views cell.
Ga4Row(url, rank, views) == [url_text |-> url, rank_text |-> rank, views_text |-> views]

NoUrlCell == "<no td>"

Ga4RowKinds ==
    { Ga4Row("/en/a", Num(1), Num(5)),
      Ga4Row("/EN/a", Junk, Junk),
      Ga4Row("/fr/b", NoCell, Num(7)),
      Ga4Row("(not set)", Num(2), Num(9)),
      Ga4Row("", Num(3), Num(1)),
      Ga4Row(NoUrlCell, Num(1), Num(5)),
      Ga4Row("/fr/b", Num(2), NoCell),
      Ga4Row("/fr/c", Num(2), Super) }

\* Rows one lookup of the GA4 table returns at most.
MaxGaRows == 1

Ga4RowLists == SeqsUpTo(Ga4RowKinds, MaxGaRows)

\* str.lower() of the URL texts of the model
Lower(u) == IF u = "/EN/a" THEN "/en/a" ELSE u

\* '"/en/" in text' for the lower-cased URL texts of the model
HasEnSegment(u) == u \in {"/en/a"}

\* The language code in lower case.
Ga4LanguageLower(url) == IF HasEnSegment(Lower(url)) THEN "en" ELSE "fr"

\* lang_code = "EN" if "/en/" in url_text.lower() else "FR"
Ga4Language(url) == IF HasEnSegment(Lower(url)) THEN "EN" ELSE "FR"

\* "try: rank = int(rank_cell.text.strip()) except: rank = 0"
Ga4Rank(t) == IF IntParses(t) THEN IntOf(t) ELSE 0

\* views = int(views_clean) if views_clean.isdigit() else 0
Ga4Views(t) == IF IsDigit(t) THEN IntOf(t) ELSE 0

\* Whether the int() of the views line raises ValueError, which the row's
\* "except Exception: continue" catches.
Ga4ViewsRaise(t) == IsDigit(t) /\ ~IntParses(t)

\* Whether the row is appended: both cell lookups succeed, the views line
\* does not raise, and the URL text is neither empty nor "(not set)".
Ga4RowKept(row) ==
    /\ row.url_text # NoUrlCell
    /\ row.views_text # NoCell
    /\ ~Ga4ViewsRaise(row.views_text)
    /\ row.url_text # ""
    /\ row.url_text # "(not set)"

Ga4Record(row, d) ==
    PageViewRecord(d, Ga4Language(row.url_text), Ga4Rank(row.rank_text),
                   row.url_text, Ga4Views(row.views_text), "Google Analytics")

RECURSIVE Ga4ProcessRows(_, _, _)
Ga4ProcessRows(recs, rows, d) ==
    IF rows = <<>> THEN recs
    ELSE Ga4ProcessRows(
             IF Ga4RowKept(Head(rows)) THEN Append(recs, Ga4Record(Head(rows), d)) ELSE recs,
             Tail(rows), d)

\* What _go_to_next_page finds: no button, a button whose class holds
\* "button-disabled", one with the disabled attribute, or one it can click.
Ga4NextKinds == {"missing", "class-disabled", "attr-disabled", "enabled"}

Ga4NextDisabled(k) == k \in {"class-disabled", "attr-disabled"}

\* A row with a page path, whatever its other cells.
HasPagePath(row) == row.url_text \notin {NoUrlCell, "", "(not set)"}

\* Of the rows of a page and the records made of them: a row with a page
\* path and a views text that is no integer has a record with views = 0, and
\* a row with a page path, decimal views and a row index that is missing or
\* no integer has a record with rank = 0.
DefaultsGiven(rows, made) ==
    \A j \in 1..Len(rows) :
        /\ (HasPagePath(rows[j]) /\ rows[j].views_text.k \in {"junk", "super"}) =>
              \E h \in 1..Len(made) :
                  made[h].url = rows[j].url_text /\ made[h].views = 0
        /\ (HasPagePath(rows[j]) /\ rows[j].views_text.k = "digits"
                /\ rows[j].rank_text.k \in {"junk", "super", "nocell"}) =>
              \E h \in 1..Len(made) :
                  made[h].url = rows[j].url_text /\ made[h].rank = 0

Ga4Idle ==
    /\ ga_pc = "idle"
    /\ ga_date = 1
    /\ ga_records = <<>>
    /\ current_page = 0
    /\ ga_result = <<>>
    /\ ga_skipped = FALSE
    /\ ga_defaults_ok = TRUE

\* The call: lines 143-148.
Ga4Init ==
    /\ ga_pc = "table"
    /\ ga_date \in Days
    /\ ga_records = <<>>
    /\ current_page = 0
    /\ ga_result = <<>>
    /\ ga_skipped = FALSE
    /\ ga_defaults_ok = TRUE

Ga4Raise ==
    /\ ga_pc' = "raised"
    /\ UNCHANGED <<ga_date, ga_records, current_page, ga_result, ga_skipped, ga_defaults_ok>>

\* The wait for ga-reporting-table: a timeout returns the empty list.
Ga4FindTable ==
    /\ ga_pc = "table"
    /\ \/ /\ ga_pc' = "done"
          /\ ga_result' = <<>>
          /\ UNCHANGED <<ga_date, ga_records, current_page, ga_skipped, ga_defaults_ok>>
       \/ /\ ga_pc' = "page"
          /\ UNCHANGED <<ga_date, ga_records, current_page, ga_result, ga_skipped, ga_defaults_ok>>
    /\ UNCHANGED notGa4

\* One turn of "while current_page < max_pages" up to the pagination.
Ga4ReadPage ==
    /\ ga_pc = "page"
    /\ IF current_page < ga_max_pages
       THEN \/ Ga4Raise
            \/ \E rows \in Ga4RowLists :
                 LET recs2 == Ga4ProcessRows(ga_records, rows, ga_date)
                 IN  /\ Len(recs2) <= MaxGaRecords
                     /\ current_page' = current_page + 1
                     /\ ga_records' = recs2
                     /\ ga_skipped' = (Len(recs2) - Len(ga_records) < Len(rows))
                     /\ ga_pc' = IF rows = <<>> THEN "return" ELSE "next"
                     /\ ga_defaults_ok' =
                            (ga_defaults_ok
                               /\ DefaultsGiven(rows, SubSeq(recs2, Len(ga_records) + 1, Len(recs2))))
                     /\ UNCHANGED <<ga_date, ga_result>>
       ELSE /\ ga_pc' = "return"
            /\ UNCHANGED <<ga_date, ga_records, current_page, ga_result, ga_skipped, ga_defaults_ok>>
    /\ UNCHANGED notGa4

\* _go_to_next_page and "if not self._go_to_next_page(): break"
Ga4GoToNextPage ==
    /\ ga_pc = "next"
    /\ \E k \in Ga4NextKinds :
         IF k = "missing" \/ Ga4NextDisabled(k)
         THEN ga_pc' = "return"
         ELSE ga_pc' \in {"page", "raised"}
    /\ UNCHANGED <<ga_date, ga_records, current_page, ga_result, ga_skipped, ga_defaults_ok>>
    /\ UNCHANGED notGa4

\* "return records"
Ga4Return ==
    /\ ga_pc = "return"
    /\ ga_result' = ga_records
    /\ ga_pc' = "done"
    /\ UNCHANGED <<ga_date, ga_records, current_page, ga_skipped, ga_defaults_ok>>
    /\ UNCHANGED notGa4

Ga4Next == Ga4FindTable \/ Ga4ReadPage \/ Ga4GoToNextPage \/ Ga4Return

\* ============================================================== calendar
\* AnalyticsScraper._click_day, _shift_calendar_to_month

\* A limit of 40 turns.
max_steps_fewer == 8 * 5

max_steps == 48

\* The years of the model's dates, and the first year the widget's year-range
\* page shows ("2016 - 2039").
FirstVisibleYear == 2016
LastVisibleYear == 2039

\* The years of the cells of the year-range page.
VisibleYears == FirstVisibleYear..LastVisibleYear

\* A year cell found whatever the page shows.
YearCellFoundAlways(year) == year = year

\* calendar_root.find_element(By.XPATH, year_xpath): a cell whose text is
\* str(target.year)
YearCellFound(year) == \E cell \in VisibleYears : cell = year

\* The widget's years in the model: from the year before the first visible
\* one, YearSpan years on.
YearSpan == 4

FirstYear == FirstVisibleYear - 1

CalYears == FirstYear..(FirstYear + YearSpan)

\* MONTH_MAP, and its keys in the order the dict holds them
MONTH_MAP ==
    [k \in {"JAN", "ENE", "FEB", "MAR", "APR", "ABR", "MAY", "JUN", "JUL",
             "AUG", "AGO", "SEP", "SET", "OCT", "NOV", "DEC", "DIC"} |->
        CASE k \in {"JAN", "ENE"} -> 1
          [] k = "FEB" -> 2
          [] k = "MAR" -> 3
          [] k \in {"APR", "ABR"} -> 4
          [] k = "MAY" -> 5
          [] k = "JUN" -> 6
          [] k = "JUL" -> 7
          [] k \in {"AUG", "AGO"} -> 8
          [] k \in {"SEP", "SET"} -> 9
          [] k = "OCT" -> 10
          [] k = "NOV" -> 11
          [] OTHER -> 12]

MonthMapKeys ==
    <<"JAN", "ENE", "FEB", "MAR", "APR", "ABR", "MAY", "JUN", "JUL",
      "AUG", "AGO", "SEP", "SET", "OCT", "NOV", "DEC", "DIC">>

\* [k for k, v in MONTH_MAP.items() if v == target_month_idx][0]
MonthKey(m) ==
    LET first == CHOOSE j \in 1..Len(MonthMapKeys) :
                     /\ MONTH_MAP[MonthMapKeys[j]] = m
                     /\ \A h \in 1..(j - 1) : MONTH_MAP[MonthMapKeys[h]] # m
    IN  MonthMapKeys[first]

\* The widget's three-letter month names, upper-cased, English and Spanish.
MonthNames(locale) ==
    IF locale = "en"
    THEN <<"JAN", "FEB", "MAR", "APR", "MAY", "JUN", "JUL", "AUG", "SEP", "OCT", "NOV", "DEC">>
    ELSE <<"ENE", "FEB", "MAR", "ABR", "MAY", "JUN", "JUL", "AGO", "SEP", "OCT", "NOV", "DIC">>

\* The text of the period button: a year range, a year, or a month and a year.
HeaderLabel(view, year, month, locale) ==
    CASE view = "multi-year" ->
            [kind |-> "range", month_str |-> "", year |-> FirstVisibleYear]
      [] view = "year" ->
            [kind |-> "year", month_str |-> "", year |-> year]
      [] OTHER ->
            [kind |-> "month", month_str |-> MonthNames(locale)[month], year |-> year]

\* The header compared by its month alone.
TargetReachedMonthOnly(label, t) ==
    /\ label.kind = "month"
    /\ label.month_str \in DOMAIN MONTH_MAP
    /\ MONTH_MAP[label.month_str] = t.month

\* "if year_val == target.year and month_val == target.month: return"
TargetReached(label, t) ==
    /\ label.kind = "month"
    /\ label.month_str \in DOMAIN MONTH_MAP
    /\ label.year = t.year
    /\ MONTH_MAP[label.month_str] = t.month

\* diff = (target.year - year_val) * 12 + (target.month - month_val)
MonthDiff(label, t) ==
    (t.year - label.year) * 12 + (t.month - MONTH_MAP[label.month_str])

\* The buttons taken for each other.
NavButtonReversed(diff) == IF diff < 0 THEN "next" ELSE "previous"

\* btn_class: the previous button when diff < 0, the next button otherwise
NavButton(diff) == IF diff < 0 THEN "previous" ELSE "next"

\* The widget after a click on the previous or the next button in day view.
MonthShifted(year, month, button) ==
    IF button = "previous"
    THEN IF month = 1 THEN <<year - 1, 12>> ELSE <<year, month - 1>>
    ELSE IF month = 12 THEN <<year + 1, 1>> ELSE <<year, month + 1>>

\* The widget keeps to the years of the model: the button that would leave
\* them is disabled (the widget's minDate and maxDate).
NavInRange(year, month, button) == MonthShifted(year, month, button)[1] \in CalYears

\* The widget after a click on the period button: the day view and the
\* year-range view toggle.
PeriodToggled(view) == IF view = "month" THEN "multi-year" ELSE "month"

\* The months from the month (year, month) to the month of t, either way.
MonthsApart(year, month, t) ==
    LET d == (t.year - year) * 12 + (t.month - month)
    IN  IF d < 0 THEN -d ELSE d

\* Where the month of t lies, seen from the month (year, month).
TargetLies(year, month, t) ==
    IF t.year = year /\ t.month = month THEN "here"
    ELSE IF t.year < year \/ (t.year = year /\ t.month < month) THEN "earlier"
    ELSE "later"

NavObs(lies, blocked, did) == [lies |-> lies, blocked |-> blocked, did |-> did]

NoNav == NavObs("none", FALSE, "none")

CellObs(view, shown, did) == [view |-> view, shown |-> shown, did |-> did]

NoCellObs == CellObs("none", FALSE, "none")

\* What a click on the cell of month m was, for the target t.
MonthCellDid(m, t) == IF m = t.month THEN "month" ELSE "other month"

CalTargets ==
    { [year |-> FirstYear, month |-> 8, day |-> 15],
      [year |-> FirstYear + 1, month |-> 1, day |-> 1],
      [year |-> FirstYear + 2, month |-> 12, day |-> 31] }

CalIdle ==
    /\ cal_pc = "idle"
    /\ target = [year |-> FirstYear, month |-> 1, day |-> 1]
    /\ cal_view = "month"
    /\ cal_year = FirstYear
    /\ cal_month = 1
    /\ cal_locale = "en"
    /\ steps = 0
    /\ cal_err = "none"
    /\ cal_clicked = "none"
    /\ day_clicks = 0
    /\ seen_target = FALSE
    /\ ideal_from = -1
    /\ nav_obs = NoNav
    /\ cell_obs = NoCellObs

\* The call _click_day(calendar_root, target) on a calendar in any view.
CalInit ==
    /\ cal_pc = "shift"
    /\ target \in CalTargets
    /\ cal_view \in {"multi-year", "year", "month"}
    /\ cal_year \in CalYears
    /\ cal_month \in 1..12
    /\ cal_locale \in {"en", "es"}
    /\ steps = 0
    /\ cal_err = "none"
    /\ cal_clicked = "none"
    /\ day_clicks = 0
    /\ seen_target = FALSE
    /\ ideal_from = IF cal_view = "month" THEN MonthsApart(cal_year, cal_month, target) ELSE -1
    /\ nav_obs = NoNav
    /\ cell_obs = NoCellObs

\* A click on `what` that leaves the widget showing (view, year, month), or
\* that the widget does not answer.
CalClick(what, view, year, month) ==
    /\ cal_clicked' = what
    /\ \/ /\ cal_view' = view
          /\ cal_year' = year
          /\ cal_month' = month
          /\ ideal_from' = IF what \in {"previous", "next"} THEN ideal_from ELSE -1
       \/ /\ UNCHANGED <<cal_view, cal_year, cal_month>>
          /\ ideal_from' = -1

CalRaise(err) ==
    /\ cal_pc' = "raised"
    /\ cal_err' = err
    /\ UNCHANGED <<cal_view, cal_year, cal_month, cal_clicked, ideal_from>>

\* One turn of "for _ in range(max_steps)" of _shift_calendar_to_month.
ShiftStep ==
    /\ cal_pc = "shift"
    /\ steps < max_steps
    /\ steps' = steps + 1
    /\ \/ \* the header cannot be read: sleep and try again
          /\ ideal_from' = -1
          /\ nav_obs' = NoNav
          /\ cell_obs' = NoCellObs
          /\ UNCHANGED <<cal_pc, cal_err, cal_view, cal_year, cal_month, cal_clicked, seen_target>>
       \/ LET label == HeaderLabel(cal_view, cal_year, cal_month, cal_locale)
              shows_target == /\ cal_view = "month"
                              /\ cal_year = target.year
                              /\ cal_month = target.month
          IN  /\ seen_target' = (seen_target \/ shows_target)
              /\ CASE label.kind = "range" ->
                        \* Case 1: the year cell is clicked, or is not on the page
                        /\ nav_obs' = NoNav
                        /\ IF YearCellFound(target.year)
                           THEN /\ CalClick("year", "year", target.year, cal_month)
                                /\ cell_obs' = CellObs("range", target.year \in VisibleYears, "year")
                                /\ UNCHANGED <<cal_pc, cal_err>>
                           ELSE /\ CalRaise("RuntimeError")
                                /\ cell_obs' = CellObs("range", target.year \in VisibleYears, "raise")
                   [] label.kind = "year" ->
                        \* Case 2: the month cell whose text holds month_key, or,
                        \* when there is none, the period button
                        /\ nav_obs' = NoNav
                        /\ IF \E m \in 1..12 : MonthNames(cal_locale)[m] = MonthKey(target.month)
                           THEN LET m == CHOOSE m \in 1..12 :
                                             MonthNames(cal_locale)[m] = MonthKey(target.month)
                                IN  /\ CalClick("month", "month", cal_year, m)
                                    /\ cell_obs' = CellObs("year", TRUE, MonthCellDid(m, target))
                                    /\ UNCHANGED <<cal_pc, cal_err>>
                           ELSE /\ CalClick("period", PeriodToggled(cal_view), cal_year, cal_month)
                                /\ cell_obs' = CellObs("year", TRUE, "period")
                                /\ UNCHANGED <<cal_pc, cal_err>>
                   [] OTHER ->
                        \* Case 3: the day view
                        /\ cell_obs' = NoCellObs
                        /\ IF label.month_str \notin DOMAIN MONTH_MAP
                           THEN /\ CalClick("period", PeriodToggled(cal_view), cal_year, cal_month)
                                /\ nav_obs' = NoNav
                                /\ UNCHANGED <<cal_pc, cal_err>>
                           ELSE IF TargetReached(label, target)
                           THEN /\ cal_pc' = "day"
                                /\ nav_obs' = NavObs(TargetLies(cal_year, cal_month, target),
                                                     FALSE, "none")
                                /\ UNCHANGED <<cal_err, cal_view, cal_year, cal_month,
                                               cal_clicked, ideal_from>>
                           ELSE LET button == NavButton(MonthDiff(label, target))
                                IN  \/ \* the button is missing or disabled
                                       /\ CalClick("period", PeriodToggled(cal_view), cal_year, cal_month)
                                       /\ nav_obs' = NavObs(TargetLies(cal_year, cal_month, target),
                                                            TRUE, "period")
                                       /\ UNCHANGED <<cal_pc, cal_err>>
                                    \/ /\ NavInRange(cal_year, cal_month, button)
                                       /\ CalClick(button, "month",
                                                   MonthShifted(cal_year, cal_month, button)[1],
                                                   MonthShifted(cal_year, cal_month, button)[2])
                                       /\ nav_obs' = NavObs(TargetLies(cal_year, cal_month, target),
                                                            FALSE, button)
                                       /\ UNCHANGED <<cal_pc, cal_err>>
    /\ UNCHANGED <<target, cal_locale, day_clicks>>
    /\ UNCHANGED notCal

\* "raise RuntimeError(Could not reach month ...)" after max_steps turns
ShiftExhausted ==
    /\ cal_pc = "shift"
    /\ steps >= max_steps
    /\ CalRaise("RuntimeError")
    /\ UNCHANGED <<target, cal_locale, steps, day_clicks, seen_target, nav_obs, cell_obs>>
    /\ UNCHANGED notCal

\* The second half of _click_day: the day cell is found and clicked, or
\* RuntimeError is raised.
ClickDayCell ==
    /\ cal_pc = "day"
    /\ \/ /\ cal_pc' = "done"
          /\ cal_clicked' = "day"
          /\ day_clicks' = day_clicks + 1
          /\ UNCHANGED cal_err
       \/ /\ cal_pc' = "raised"
          /\ cal_err' = "RuntimeError"
          /\ UNCHANGED <<cal_clicked, day_clicks>>
    /\ UNCHANGED <<target, cal_view, cal_year, cal_month, cal_locale, steps, seen_target,
                   ideal_from, nav_obs, cell_obs>>
    /\ UNCHANGED notCal

CalNext == ShiftStep \/ ShiftExhausted \/ ClickDayCell

\* =========================================================== date picker
\* AnalyticsScraper.set_date_range, _ensure_fixed_mode

\* The modes of the dialog and the text its options button shows in each.
PickerModes == {"fixed", "auto", "advanced"}

OptionsText(m) ==
    CASE m = "fixed" -> "Fixed"
      [] m = "auto" -> "Auto date range"
      [] OTHER -> "Advanced"

\* str.strip().lower() of the texts of the options button
StripLower(text) ==
    CASE text = "Fixed" -> "fixed"
      [] text = "Auto date range" -> "auto date range"
      [] OTHER -> "advanced"

\* '"fixed" in current_text'
HasFixed(text) == text \in {"fixed"}

\* Any number of calendars taken to be enough.
TooFewCalendarsNever(n) == n < 0

\* "if len(calendars) < 2"
TooFewCalendars(n) == n < 2

\* The numbers of mat-calendar elements a lookup in the dialog returns.
CalendarCounts == 0..3

PickerEvent(e, cal, d) == [e |-> e, cal |-> cal, d |-> d]

\* An event of the page that is no click on a day.
Did(e) == PickerEvent(e, 0, 0)

PickerIdle ==
    /\ dp_pc = "idle"
    /\ dp_start = 1
    /\ dp_end = 1
    /\ dp_mode = "fixed"
    /\ dp_events = <<>>
    /\ dp_err = "none"
    /\ dp_cals = -1
    /\ fm_end = "none"
    /\ fm_clicks = 0
    /\ fm_was_fixed = FALSE

\* The call set_date_range(start, end), start <= end, on a report whose
\* date picker is in any mode.
PickerInit ==
    /\ dp_pc = "open"
    /\ dp_start \in Days
    /\ dp_end \in Days
    /\ dp_start <= dp_end
    /\ dp_mode \in PickerModes
    /\ dp_events = <<>>
    /\ dp_err = "none"
    /\ dp_cals = -1
    /\ fm_end = "none"
    /\ fm_clicks = 0
    /\ fm_was_fixed = FALSE

\* An exception leaves set_date_range.
PickerRaise(err) ==
    /\ dp_pc' = "raised"
    /\ dp_err' = err

\* 1. the date button's text is read, the button waited for and clicked
PickerOpen ==
    /\ dp_pc = "open"
    /\ \/ /\ dp_pc' = "dialog"
          /\ dp_events' = Append(dp_events, Did("open"))
          /\ UNCHANGED dp_err
       \/ /\ \E err \in {"NoSuchElementException", "TimeoutException"} : PickerRaise(err)
          /\ UNCHANGED dp_events
    /\ UNCHANGED <<dp_start, dp_end, dp_mode, dp_cals, fm_end, fm_clicks, fm_was_fixed>>
    /\ UNCHANGED notPicker

\* 2. the dialog is waited for
PickerDialog ==
    /\ dp_pc = "dialog"
    /\ \/ dp_pc' = "fixed" /\ UNCHANGED dp_err
       \/ PickerRaise("TimeoutException")
    /\ UNCHANGED <<dp_start, dp_end, dp_mode, dp_events, dp_cals, fm_end, fm_clicks,
                   fm_was_fixed>>
    /\ UNCHANGED notPicker

\* _ensure_fixed_mode returns: set_date_range goes on to the calendars.
FixedReturns(how) ==
    /\ fm_end' = how
    /\ dp_pc' = "calendars"
    /\ dp_events' = Append(dp_events, Did("checked"))
    /\ UNCHANGED <<dp_err, dp_mode, fm_clicks>>

\* An exception that _ensure_fixed_mode does not catch.
FixedRaises(err) ==
    /\ fm_end' = "raised"
    /\ PickerRaise(err)
    /\ UNCHANGED <<dp_events, dp_mode, fm_clicks>>

\* _ensure_fixed_mode: the options button is looked up and its text read;
\* in another mode the button is clicked
EnsureFixedLook ==
    /\ dp_pc = "fixed"
    /\ fm_was_fixed' = (dp_mode = "fixed")
    /\ \/ \* no options button: NoSuchElementException, caught
          FixedReturns("warned")
       \/ /\ HasFixed(StripLower(OptionsText(dp_mode)))
          /\ FixedReturns("already")
       \/ /\ ~HasFixed(StripLower(OptionsText(dp_mode)))
          /\ \/ /\ dp_pc' = "fixed_item"
                /\ dp_events' = Append(dp_events, Did("options"))
                /\ fm_clicks' = fm_clicks + 1
                /\ UNCHANGED <<dp_err, dp_mode, fm_end>>
             \/ FixedRaises("ElementClickInterceptedException")
    /\ UNCHANGED <<dp_start, dp_end, dp_cals>>
    /\ UNCHANGED notPicker

\* _ensure_fixed_mode: the menu item "Fixed" is waited for and clicked; the
\* dialog goes to Fixed mode, or does not answer
EnsureFixedItem ==
    /\ dp_pc = "fixed_item"
    /\ \/ \* the item never becomes clickable: TimeoutException, caught
          FixedReturns("warned")
       \/ /\ dp_pc' = "fixed_confirm"
          /\ dp_events' = Append(dp_events, Did("fixed_item"))
          /\ fm_clicks' = fm_clicks + 1
          /\ dp_mode' \in {"fixed", dp_mode}
          /\ UNCHANGED <<dp_err, fm_end>>
       \/ FixedRaises("ElementClickInterceptedException")
    /\ UNCHANGED <<dp_start, dp_end, dp_cals, fm_was_fixed>>
    /\ UNCHANGED notPicker

\* _ensure_fixed_mode: 'self.wait.until(lambda d: "fixed" in
\* options_btn.text.lower())'
EnsureFixedConfirm ==
    /\ dp_pc = "fixed_confirm"
    /\ \/ /\ HasFixed(StripLower(OptionsText(dp_mode)))
          /\ FixedReturns("switched")
       \/ /\ ~HasFixed(StripLower(OptionsText(dp_mode)))
          /\ FixedReturns("warned")
       \/ FixedRaises("StaleElementReferenceException")
    /\ UNCHANGED <<dp_start, dp_end, dp_cals, fm_was_fixed>>
    /\ UNCHANGED notPicker

\* 3. the calendars of the dialog are looked up and counted
FindCalendars ==
    /\ dp_pc = "calendars"
    /\ \E n \in CalendarCounts :
          /\ dp_cals' = n
          /\ IF TooFewCalendars(n)
             THEN PickerRaise("RuntimeError")
             ELSE dp_pc' = "start_day" /\ UNCHANGED dp_err
    /\ UNCHANGED <<dp_start, dp_end, dp_mode, dp_events, fm_end, fm_clicks, fm_was_fixed>>
    /\ UNCHANGED notPicker

\* One call _click_day(calendars[cal - 1], d) of set_date_range: the day is
\* clicked, or RuntimeError leaves it.
PickerClickDay(cal, d, then) ==
    /\ \/ /\ dp_pc' = then
          /\ dp_events' = Append(dp_events, PickerEvent("day", cal, d))
          /\ UNCHANGED dp_err
       \/ /\ PickerRaise("RuntimeError")
          /\ UNCHANGED dp_events
    /\ UNCHANGED <<dp_start, dp_end, dp_mode, dp_cals, fm_end, fm_clicks, fm_was_fixed>>
    /\ UNCHANGED notPicker

\* 4. self._click_day(start_cal, start)
ClickStartDay == dp_pc = "start_day" /\ PickerClickDay(1, dp_start, "end_day")

\* self._click_day(end_cal, end)
ClickEndDay == dp_pc = "end_day" /\ PickerClickDay(2, dp_end, "apply")

\* 5. the Apply button is looked up and clicked
ClickApply ==
    /\ dp_pc = "apply"
    /\ \/ /\ dp_pc' = "closing"
          /\ dp_events' = Append(dp_events, Did("apply"))
          /\ UNCHANGED dp_err
       \/ /\ PickerRaise("NoSuchElementException")
          /\ UNCHANGED dp_events
    /\ UNCHANGED <<dp_start, dp_end, dp_mode, dp_cals, fm_end, fm_clicks, fm_was_fixed>>
    /\ UNCHANGED notPicker

\* 6. the dialog is waited to close; 7. the button's text to change, a
\* timeout of which is caught; 8. the tables to show, the answer unused
WaitApplied ==
    /\ dp_pc = "closing"
    /\ \/ dp_pc' = "returned" /\ UNCHANGED dp_err
       \/ PickerRaise("TimeoutException")
    /\ UNCHANGED <<dp_start, dp_end, dp_mode, dp_events, dp_cals, fm_end, fm_clicks,
                   fm_was_fixed>>
    /\ UNCHANGED notPicker

\* The caller's next statement: the tables are scraped for the range.
ScrapeAfterSet ==
    /\ dp_pc = "returned"
    /\ dp_pc' = "done"
    /\ dp_events' = Append(dp_events, Did("scrape"))
    /\ UNCHANGED <<dp_start, dp_end, dp_mode, dp_err, dp_cals, fm_end, fm_clicks,
                   fm_was_fixed>>
    /\ UNCHANGED notPicker

PickerNext ==
    \/ PickerOpen
    \/ PickerDialog
    \/ EnsureFixedLook
    \/ EnsureFixedItem
    \/ EnsureFixedConfirm
    \/ FindCalendars
    \/ ClickStartDay
    \/ ClickEndDay
    \/ ClickApply
    \/ WaitApplied
    \/ ScrapeAfterSet

\* ================================================================ export
\* export_pageviews_to_excel

None == 0

\* The values of the sheet's cells.
StrCell(x) == [t |-> "str", s |-> x, n |-> 0]
IntCell(x) == [t |-> "int", s |-> "", n |-> x]
NaN == [t |-> "nan", s |-> "", n |-> 0]

\* date.isoformat(): the text of the date
Iso(d) == [t |-> "iso", s |-> "", n |-> d]

\* str.upper() of the language codes of the model
Upper(x) ==
    CASE x = "en" -> "EN"
      [] x = "fr" -> "FR"
      [] OTHER -> x

\* The range taken as given when either end is.
RangeGivenEither(rs, re) == rs # None \/ re # None

\* "if range_start is not None and range_end is not None"
RangeGiven(rs, re) == rs # None /\ re # None

\* The dict built for one record: its (key, value) pairs in insertion order.
ExportRow(r, rs, re) ==
    << <<"date", Iso(r.date)>>, <<"language", StrCell(Upper(r.language))>>,
       <<"rank", IntCell(r.rank)>>, <<"url", StrCell(r.url)>>, <<"views", IntCell(r.views)>> >>
    \o (IF RangeGiven(rs, re)
        THEN << <<"range_start", Iso(rs)>>, <<"range_end", Iso(re)>> >>
        ELSE <<>>)

ExportRows(records, rs, re) == [j \in 1..Len(records) |-> ExportRow(records[j], rs, re)]

SeqHas(sq, x) == \E j \in 1..Len(sq) : sq[j] = x

RowKeys(row) == [j \in 1..Len(row) |-> row[j][1]]

\* The place a key is first seen at, reading the rows in order.
FirstSeen(rows, key) ==
    LET places == UNION { { <<j, h>> : h \in { g \in 1..Len(rows[j]) : rows[j][g][1] = key } } :
                          j \in 1..Len(rows) }
    IN  CHOOSE p \in places :
            \A q \in places : p[1] < q[1] \/ (p[1] = q[1] /\ p[2] <= q[2])

Before(p, q) == p[1] < q[1] \/ (p[1] = q[1] /\ p[2] < q[2])

\* pd.DataFrame(rows).columns: the keys of the dicts, in the order first seen
DfColumns(rows) ==
    LET keys == UNION { { rows[j][h][1] : h \in 1..Len(rows[j]) } : j \in 1..Len(rows) }
    IN  [c \in 1..Cardinality(keys) |->
            CHOOSE x \in keys :
                Cardinality({ y \in keys : Before(FirstSeen(rows, y), FirstSeen(rows, x)) }) = c - 1]

BaseColumns == <<"date", "language", "rank", "url", "views">>

\* desired_order, extended when the frame has a range_start column
DesiredOrder(dfcols) ==
    BaseColumns \o (IF SeqHas(dfcols, "range_start")
                    THEN <<"range_start", "range_end">> ELSE <<>>)

\* final_cols = [c for c in desired_order if c in df.columns]
FinalCols(dfcols) == SelectSeq(DesiredOrder(dfcols), LAMBDA c : SeqHas(dfcols, c))

\* The cell of a row under a column: the dict's value, NaN when it has none.
CellOf(row, col) ==
    IF \E j \in 1..Len(row) : row[j][1] = col
    THEN row[CHOOSE j \in 1..Len(row) : row[j][1] = col][2]
    ELSE NaN

NoSheet == [columns |-> <<>>, data |-> <<>>, written |-> FALSE]

\* The sheet written by df.to_excel(..., index=False): the header, and one
\* line of cells per row of the frame.  Nothing is written without rows.
ExportSheet(records, rs, re) ==
    LET rows == ExportRows(records, rs, re)
        cols == FinalCols(DfColumns(rows))
    IN  IF rows = <<>> THEN NoSheet
        ELSE [columns |-> cols,
              data |-> [j \in 1..Len(rows) |-> [c \in 1..Len(cols) |-> CellOf(rows[j], cols[c])]],
              written |-> TRUE]

ExportRecordKinds ==
    { PageViewRecord(1, "EN", 1, "/a", 5, "Looker Studio"),
      PageViewRecord(2, "fr", 2, "/b", 0, "Looker Studio"),
      PageViewRecord(1, "FR", 0, "/fr/b", 7, "Google Analytics") }

ExportIdle ==
    /\ ex_pc = "idle"
    /\ ex_records = <<>>
    /\ ex_range_start = None
    /\ ex_range_end = None
    /\ sheet = NoSheet

\* The call export_pageviews_to_excel(records, output_path, range_start, range_end)
ExportInit ==
    /\ ex_pc = "call"
    /\ ex_records \in SeqsUpTo(ExportRecordKinds, MaxRows)
    /\ ex_range_start \in {None} \cup Days
    /\ ex_range_end \in {None} \cup Days
    /\ sheet = NoSheet

\* The whole function: the sheet is written, or writing the file raises.
ExportCall ==
    /\ ex_pc = "call"
    /\ \/ /\ sheet' = ExportSheet(ex_records, ex_range_start, ex_range_end)
          /\ ex_pc' = "done"
       \/ /\ ex_records # <<>>
          /\ sheet' = NoSheet
          /\ ex_pc' = "raised"
    /\ UNCHANGED <<ex_records, ex_range_start, ex_range_end>>
    /\ UNCHANGED notExport

ExportNext == ExportCall

\* ============================================================ iter_dates
\* iter_dates, a generator: its body runs when the caller asks for the first
\* date.  A date is its day number; "+ timedelta(days=1)" is "+ 1" (the
\* dates of the model are far from date.max).

\* "while current <= end" stopping one day early
IterContinuesBefore(cur, last) == cur < last

\* "while current <= end"
IterContinues(cur, last) == cur <= last

IterIdle ==
    /\ it_pc = "idle"
    /\ it_start = 1
    /\ it_end = 1
    /\ current = 0
    /\ it_yielded = <<>>
    /\ it_err = "none"

\* The call iter_dates(start, end)
IterInit ==
    /\ it_pc = "start"
    /\ it_start \in 1..MaxDate
    /\ it_end \in 1..MaxDate
    /\ current = 0
    /\ it_yielded = <<>>
    /\ it_err = "none"

\* "if end < start: raise ValueError(...)", else "current = start"
IterStart ==
    /\ it_pc = "start"
    /\ IF it_end < it_start
       THEN /\ it_pc' = "raised"
            /\ it_err' = "ValueError"
            /\ UNCHANGED current
       ELSE /\ it_pc' = "loop"
            /\ current' = it_start
            /\ UNCHANGED it_err
    /\ UNCHANGED <<it_start, it_end, it_yielded>>
    /\ UNCHANGED notIter

\* The test of the while loop and "yield current"
IterYield ==
    /\ it_pc = "loop"
    /\ IF IterContinues(current, it_end)
       THEN /\ it_yielded' = Append(it_yielded, current)
            /\ it_pc' = "yielded"
       ELSE /\ it_pc' = "done"
            /\ UNCHANGED it_yielded
    /\ UNCHANGED <<it_start, it_end, current, it_err>>
    /\ UNCHANGED notIter

\* The caller asks for the next date: "current += timedelta(days=1)"
IterResume ==
    /\ it_pc = "yielded"
    /\ current' = current + 1
    /\ it_pc' = "loop"
    /\ UNCHANGED <<it_start, it_end, it_yielded, it_err>>
    /\ UNCHANGED notIter

IterNext == IterStart \/ IterYield \/ IterResume

\* iter_dates(start, end) as the loops of run_scraper use it, for
\* start <= end: the days it yields, in order
RECURSIVE IterDates(_, _)
IterDates(first, last) ==
    IF IterContinues(first, last) THEN <<first>> \o IterDates(first + 1, last) ELSE <<>>

\* =================================================================== run
\* run_scraper

\* The exceptions of the model; each is an Exception.
Exceptions == {"RuntimeError", "TimeoutException"}

\* An except clause for timeouts only.
CatchesOnlyTimeout(exc) == exc = "TimeoutException"

\* "except Exception as e"
Catches(exc) == exc \in Exceptions

\* The list replaced instead of extended.
ExtendReplaces(all, recs) == recs

\* all_records.extend(recs)
Extend(all, recs) == all \o recs

\* "for r in recs: r.source = ..."
WithSource(recs, src) == [j \in 1..Len(recs) |-> [recs[j] EXCEPT !.source = src]]

\* What the rows of one Looker table show during one scrape, in the order read.
RunLookerRows ==
    { <<>>,
      <<LookerRow(FALSE, 3, Num(1), "/a", "/a", Num(5))>>,
      <<LookerRow(FALSE, 3, Num(1), "/a", "/a", Num(5)),
        LookerRow(FALSE, 3, Num(2), NoLink, "/a", Num(7)),
        LookerRow(FALSE, 3, Num(1), "/a", "/a", Num(5))>> }

RunLookerRowsFr ==
    { <<>>, <<LookerRow(FALSE, 3, Num(1), "/b", "/b", Junk)>> }

\* What the rows of the GA4 table show during one scrape, in the order read.
RunGa4Rows ==
    { <<>>,
      <<Ga4Row("/en/a", Num(1), Num(5))>>,
      <<Ga4Row("/en/a", Num(1), Num(5)), Ga4Row("(not set)", Num(2), Num(9)),
        Ga4Row("/en/a", Num(1), Num(5))>> }

\* scrape_current_tables(the_date): the EN records, then the FR records
ScrapeCurrentTables(en_rows, fr_rows, d) ==
    ProcessRows(<<>>, en_rows, "EN", d) \o ProcessRows(<<>>, fr_rows, "FR", d)

\* scrape_data(the_date)
ScrapeData(rows, d) == Ga4ProcessRows(<<>>, rows, d)

Op(op, src, a, b) == [op |-> op, src |-> src, a |-> a, b |-> b]

Tagged(recs, src, d) == [j \in 1..Len(recs) |-> [rec |-> recs[j], src |-> src, day |-> d]]

\* The dates of the running loop, and its current one.
RunDays == IterDates(start, end)

RunDay == RunDays[day_i]

\* Every source set to the day of the loop, whatever the mode.
RangeArgsOfDay == <<RunDays[day_i], RunDays[day_i]>>

\* The range a source is set to, and the date its records get.
RangeArgs == IF mode = "per_day" THEN <<RunDay, RunDay>> ELSE <<start, end>>

\* The end date given to every scrape.
ScrapeDateEnd == end

\* The date given to the scrape: the day in per_day mode, end otherwise.
ScrapeDate == IF mode = "per_day" THEN RunDay ELSE end

RunIdle ==
    /\ run_pc = "idle"
    /\ start = 1
    /\ end = 1
    /\ mode = "per_day"
    /\ sources = {}
    /\ driver = "none"
    /\ all_records = <<>>
    /\ day_i = 1
    /\ run_exc = "none"
    /\ ops = <<>>
    /\ exports = 0
    /\ raised_in = "none"
    /\ ops_at_raise = 0
    /\ collected = <<>>

\* The call run_scraper(start, end, mode=..., sources=...)
RunInit ==
    /\ run_pc = "validate"
    /\ start \in Days
    /\ end \in Days
    /\ mode \in {"per_day", "range"}
    /\ sources \in SUBSET {"looker", "ga4"}
    /\ driver = "none"
    /\ all_records = <<>>
    /\ day_i = 1
    /\ run_exc = "none"
    /\ ops = <<>>
    /\ exports = 0
    /\ raised_in = "none"
    /\ ops_at_raise = 0
    /\ collected = <<>>

\* A call inside the try block raises: the except clause, then finally.
RunRaise(step) ==
    \E exc \in Exceptions :
        /\ run_exc' = IF Catches(exc) THEN "caught" ELSE "propagating"
        /\ raised_in' = step
        /\ ops_at_raise' = Len(ops)
        /\ run_pc' = "finally"
        /\ UNCHANGED <<start, end, mode, sources, driver, all_records, day_i, ops,
                       exports, collected>>

\* A call returns: it is added to the history, and the run goes on at `next`.
RunDone(op, next) ==
    /\ ops' = Append(ops, op)
    /\ run_pc' = next
    /\ UNCHANGED <<start, end, mode, sources, run_exc, exports, raised_in, ops_at_raise>>

RunSkip(next) ==
    /\ run_pc' = next
    /\ UNCHANGED <<start, end, mode, sources, driver, all_records, day_i, run_exc,
                   ops, exports, raised_in, ops_at_raise, collected>>

\* No range refused.
InvalidRangeNever == FALSE

\* "if start > end"
InvalidRange == start > end

\* "if start > end: print(...); return"
RunValidate ==
    /\ run_pc = "validate"
    /\ IF InvalidRange THEN RunSkip("returned") ELSE RunSkip("driver")
    /\ UNCHANGED exportVars
    /\ UNCHANGED notRun

\* driver = make_brave_driver(...)
RunMakeDriver ==
    /\ run_pc = "driver"
    /\ \/ /\ driver' = "open"
          /\ RunDone(Op("driver", "browser", 0, 0), "login")
          /\ UNCHANGED <<all_records, day_i, collected>>
       \/ RunRaise("driver")
    /\ UNCHANGED exportVars
    /\ UNCHANGED notRun

\* No login, whatever the sources.
NeedsLoginNever == FALSE

\* "if "ga4" in sources" of the login
NeedsLogin == "ga4" \in sources

\* "if "ga4" in sources: auth.login()"
RunLogin ==
    /\ run_pc = "login"
    /\ IF NeedsLogin
       THEN \/ /\ RunDone(Op("login", "browser", 0, 0), "looker_open")
               /\ UNCHANGED <<driver, all_records, day_i, collected>>
            \/ RunRaise("login")
       ELSE RunSkip("looker_open")
    /\ UNCHANGED exportVars
    /\ UNCHANGED notRun

\* "if "looker" in sources: looker_scraper.open_report()"
RunLookerOpen ==
    /\ run_pc = "looker_open"
    /\ IF "looker" \in sources
       THEN \/ /\ RunDone(Op("open", "looker", 0, 0), "looker_set")
               /\ day_i' = 1
               /\ UNCHANGED <<driver, all_records, collected>>
            \/ RunRaise("looker")
       ELSE RunSkip("ga4_open")
    /\ UNCHANGED exportVars
    /\ UNCHANGED notRun

\* looker_scraper.set_date_range: of scrape_for_single_day(d) in per_day
\* mode, of the range otherwise
RunLookerSetRange ==
    /\ run_pc = "looker_set"
    /\ \/ /\ RunDone(Op("set", "looker", RangeArgs[1], RangeArgs[2]), "looker_scrape")
          /\ UNCHANGED <<driver, all_records, day_i, collected>>
       \/ RunRaise("looker")
    /\ UNCHANGED exportVars
    /\ UNCHANGED notRun

\* Where the loop over the days goes after one day: the next day, or `after`.
NextOfLoop(again, after) ==
    IF mode = "per_day" /\ day_i < Len(RunDays) THEN again ELSE after

\* looker_scraper.scrape_current_tables, the source set on its records, and
\* all_records.extend(recs)
RunLookerScrape ==
    /\ run_pc = "looker_scrape"
    /\ \/ \E en_rows \in RunLookerRows, fr_rows \in RunLookerRowsFr :
            LET recs == WithSource(ScrapeCurrentTables(en_rows, fr_rows, ScrapeDate),
                                   "Looker Studio")
            IN  /\ all_records' = Extend(all_records, recs)
                /\ collected' = collected \o Tagged(recs, "looker", RunDay)
                /\ RunDone(Op("scrape", "looker", ScrapeDate, ScrapeDate),
                           NextOfLoop("looker_set", "ga4_open"))
                /\ day_i' = IF NextOfLoop("looker_set", "ga4_open") = "looker_set"
                            THEN day_i + 1 ELSE day_i
                /\ UNCHANGED driver
       \/ RunRaise("looker")
    /\ UNCHANGED exportVars
    /\ UNCHANGED notRun

\* "if "ga4" in sources: ga4_scraper.open_report()"
RunGa4Open ==
    /\ run_pc = "ga4_open"
    /\ IF "ga4" \in sources
       THEN \/ /\ RunDone(Op("open", "ga4", 0, 0), "ga4_set")
               /\ day_i' = 1
               /\ UNCHANGED <<driver, all_records, collected>>
            \/ RunRaise("ga4")
       ELSE RunSkip("export")
    /\ UNCHANGED exportVars
    /\ UNCHANGED notRun

\* ga4_scraper.set_date_range(d, d), or (start, end) in range mode
RunGa4SetRange ==
    /\ run_pc = "ga4_set"
    /\ \/ /\ RunDone(Op("set", "ga4", RangeArgs[1], RangeArgs[2]), "ga4_scrape")
          /\ UNCHANGED <<driver, all_records, day_i, collected>>
       \/ RunRaise("ga4")
    /\ UNCHANGED exportVars
    /\ UNCHANGED notRun

\* ga4_scraper.scrape_data and all_records.extend(recs)
RunGa4Scrape ==
    /\ run_pc = "ga4_scrape"
    /\ \/ \E rows \in RunGa4Rows :
            LET recs == ScrapeData(rows, ScrapeDate)
            IN  /\ all_records' = Extend(all_records, recs)
                /\ collected' = collected \o Tagged(recs, "ga4", RunDay)
                /\ RunDone(Op("scrape", "ga4", ScrapeDate, ScrapeDate),
                           NextOfLoop("ga4_set", "export"))
                /\ day_i' = IF NextOfLoop("ga4_set", "export") = "ga4_set"
                            THEN day_i + 1 ELSE day_i
                /\ UNCHANGED driver
       \/ RunRaise("ga4")
    /\ UNCHANGED exportVars
    /\ UNCHANGED notRun

\* The export: nothing without records, else one call of
\* export_pageviews_to_excel, with the range in range mode only.
RunExport ==
    /\ run_pc = "export"
    /\ IF all_records = <<>>
       THEN /\ RunSkip("finally")
            /\ UNCHANGED exportVars
       ELSE LET range_start == IF mode = "range" THEN start ELSE None
                range_end == IF mode = "range" THEN end ELSE None
            IN  /\ ex_records' = all_records
                /\ ex_range_start' = range_start
                /\ ex_range_end' = range_end
                /\ exports' = exports + 1
                /\ \/ /\ sheet' = ExportSheet(all_records, range_start, range_end)
                      /\ ex_pc' = "done"
                      /\ ops' = Append(ops, Op("export", "file", range_start, range_end))
                      /\ run_pc' = "finally"
                      /\ UNCHANGED <<run_exc, raised_in, ops_at_raise>>
                   \/ /\ sheet' = NoSheet
                      /\ ex_pc' = "raised"
                      /\ \E exc \in Exceptions :
                            run_exc' = IF Catches(exc) THEN "caught" ELSE "propagating"
                      /\ raised_in' = "export"
                      /\ ops_at_raise' = Len(ops)
                      /\ run_pc' = "finally"
                      /\ UNCHANGED ops
                /\ UNCHANGED <<start, end, mode, sources, driver, all_records, day_i, collected>>
    /\ UNCHANGED notRun

\* "finally: if driver: driver.quit()", and the way out of run_scraper
RunFinally ==
    /\ run_pc = "finally"
    /\ IF driver = "open"
       THEN /\ driver' = "quit"
            /\ ops' = Append(ops, Op("quit", "browser", 0, 0))
       ELSE UNCHANGED <<driver, ops>>
    /\ run_pc' = IF run_exc = "propagating" THEN "raised_out" ELSE "returned"
    /\ UNCHANGED <<start, end, mode, sources, all_records, day_i, run_exc, exports,
                   raised_in, ops_at_raise, collected>>
    /\ UNCHANGED exportVars
    /\ UNCHANGED notRun

RunNext ==
    \/ RunValidate \/ RunMakeDriver \/ RunLogin
    \/ RunLookerOpen \/ RunLookerSetRange \/ RunLookerScrape
    \/ RunGa4Open \/ RunGa4SetRange \/ RunGa4Scrape
    \/ RunExport \/ RunFinally

\* ================================================================= specs
\* One call of _scrape_table_for_language
InitLooker == LookerInit /\ Ga4Idle /\ CalIdle /\ ExportIdle /\ RunIdle /\ IterIdle /\ PickerIdle

SpecLooker == InitLooker /\ [][LookerNext]_vars

\* One call of GA4Scraper.scrape_data
InitGA4 == Ga4Init /\ LookerIdle /\ CalIdle /\ ExportIdle /\ RunIdle /\ IterIdle /\ PickerIdle

SpecGA4 == InitGA4 /\ [][Ga4Next]_vars

\* One call of AnalyticsScraper._click_day
InitCal == CalInit /\ LookerIdle /\ Ga4Idle /\ ExportIdle /\ RunIdle /\ IterIdle /\ PickerIdle

SpecCal == InitCal /\ [][CalNext]_vars

\* One call of export_pageviews_to_excel
InitExport == ExportInit /\ LookerIdle /\ Ga4Idle /\ CalIdle /\ RunIdle /\ IterIdle /\ PickerIdle

SpecExport == InitExport /\ [][ExportNext]_vars

\* One call of run_scraper
InitRun == RunInit /\ LookerIdle /\ Ga4Idle /\ CalIdle /\ ExportIdle /\ IterIdle /\ PickerIdle

SpecRun == InitRun /\ [][RunNext]_vars

\* One call of one of the three routines with a bounded loop
InitRoutines == InitLooker \/ InitGA4 \/ InitCal

RoutinesNext == LookerNext \/ Ga4Next \/ CalNext

SpecRoutines == InitRoutines /\ [][RoutinesNext]_vars

\* One call of iter_dates, read to its end
InitIter == IterInit /\ LookerIdle /\ Ga4Idle /\ CalIdle /\ ExportIdle /\ RunIdle /\ PickerIdle

SpecIter == InitIter /\ [][IterNext]_vars

\* One call of set_date_range, and the scrape its caller makes next
InitPicker ==
    PickerInit /\ LookerIdle /\ Ga4Idle /\ CalIdle /\ ExportIdle /\ RunIdle /\ IterIdle

SpecPicker == InitPicker /\ [][PickerNext]_vars

\* The operations on one source that returned, in order.
SrcOps(src) == SelectSeq(ops, LAMBDA o : o.src = src /\ o.op \in {"set", "scrape"})

\* Per day, for the days start..end in order: the range set to [d, d], then
\* the tables read for d.
PerDayOps(src) ==
    [h \in 1..(2 * (end - start + 1)) |->
        LET d == start + ((h - 1) \div 2)
        IN  IF h % 2 = 1 THEN Op("set", src, d, d) ELSE Op("scrape", src, d, d)]

\* For the range: the range set to [start, end] once, then the tables read once.
RangeOps(src) == <<Op("set", src, start, end), Op("scrape", src, end, end)>>

IsPrefix(sq, tq) == Len(sq) <= Len(tq) /\ \A h \in 1..Len(sq) : sq[h] = tq[h]

\* ---------------------------------------------------------------- C6
\* C6: when a step of either source raises, the run is aborted: no later
\* day or source is scraped, no spreadsheet is written, the browser is quit,
\* and run_scraper returns without raising.
C6_AbortOnException ==
    /\ run_pc # "raised_out"
    /\ run_exc # "propagating"
    /\ raised_in \in {"looker", "ga4"} =>
          /\ run_pc \in {"finally", "returned"}
          /\ exports = 0
          /\ ~sheet.written
          /\ \A h \in (ops_at_raise + 1)..Len(ops) : ops[h].op = "quit"

\* GA4 raises on the second day, with records already collected.
C6_Witness ==
    /\ run_pc = "returned" /\ raised_in = "ga4" /\ run_exc = "caught"
    /\ day_i = 2 /\ Len(all_records) >= 2 /\ driver = "quit"

\* ---------------------------------------------------------------- C7
\* C7: export_pageviews_to_excel is called at most once, after every selected
\* source has been scraped for every day; it is given every collected record
\* in collection order (Looker Studio before Google Analytics, days
\* ascending), and the sheet has one data row per collected record.
C7_ExportOnceWithAllRecords ==
    /\ exports <= 1
    /\ exports = 1 =>
          /\ run_pc \in {"finally", "returned", "raised_out"}
          /\ \A src \in sources :
                SrcOps(src) = IF mode = "per_day" THEN PerDayOps(src) ELSE RangeOps(src)
          /\ ex_records = [h \in 1..Len(collected) |-> collected[h].rec]
          /\ \A h, k \in 1..Len(collected) :
                h < k =>
                  /\ collected[h].src = "ga4" => collected[k].src = "ga4"
                  /\ collected[h].src = collected[k].src => collected[h].day <= collected[k].day
          /\ \A h \in 1..Len(collected) :
                collected[h].rec.source =
                    IF collected[h].src = "looker" THEN "Looker Studio" ELSE "Google Analytics"
    /\ sheet.written =>
          /\ Len(sheet.data) = Len(collected)
          /\ \A h \in 1..Len(collected) :
                /\ sheet.data[h][1] = Iso(collected[h].rec.date)
                /\ sheet.data[h][3] = IntCell(collected[h].rec.rank)
                /\ sheet.data[h][4] = StrCell(collected[h].rec.url)
                /\ sheet.data[h][5] = IntCell(collected[h].rec.views)

\* A sheet written from both sources' records of two days.
C7_Witness ==
    /\ sheet.written /\ exports = 1 /\ mode = "per_day" /\ start < end
    /\ \E h, k \in 1..Len(collected) :
          /\ collected[h].src = "looker" /\ collected[k].src = "ga4"
          /\ collected[h].day = end /\ collected[k].day = start

\* ---------------------------------------------------------------- C9
\* C9: in per_day mode each selected source goes through the days start..end
\* in ascending order, each once; for each day d the range is set to [d, d]
\* before the tables are read, and every record collected for d has date d.
C9_PerDayOrder ==
    mode = "per_day" =>
        /\ \A src \in {"looker", "ga4"} :
              /\ IsPrefix(SrcOps(src), PerDayOps(src))
              /\ src \notin sources => SrcOps(src) = <<>>
              /\ (src \in sources /\ run_pc = "returned" /\ start <= end /\ raised_in = "none")
                    => SrcOps(src) = PerDayOps(src)
        /\ \A h \in 1..Len(collected) : collected[h].rec.date = collected[h].day
        /\ all_records = [h \in 1..Len(collected) |-> collected[h].rec]

\* Both sources done for two days, with records of the second day.
C9_Witness ==
    /\ mode = "per_day" /\ run_pc = "returned" /\ raised_in = "none"
    /\ start < end /\ sources = {"looker", "ga4"}
    /\ \E h, k \in 1..Len(collected) :
          /\ collected[h].src = "looker" /\ collected[h].day = end
          /\ collected[k].src = "ga4" /\ collected[k].day = end

\* --------------------------------------------------------------- C14
\* C14: a row of the Looker table that cannot be read (fewer than three
\* cells, a rank that is no number, a stale reference) produces no record and
\* raises nothing to the caller of _scrape_table_for_language, and the other
\* rows of the pass are recorded.
C14_UnreadableRowsSkipped ==
    /\ lk_exc # "row"
    /\ lk_rows_ok

\* --------------------------------------------------------------- C15
\* C15: a row of the GA4 table with a page path and a views text that is no
\* integer is recorded with views = 0, and one whose row-index cell is
\* missing or is no integer is recorded with rank = 0.
C15_UnparsedTextGetsDefault ==
    ga_defaults_ok

\* --------------------------------------------------------------- C24
\* C24: whenever _ensure_fixed_mode has returned, the dialog is in Fixed mode
\* (its options button shows "Fixed"), and when the dialog was in Fixed mode
\* already it clicked nothing.
C24_FixedModeEnsured ==
    /\ fm_end \in {"already", "switched", "warned"} => dp_mode = "fixed"
    /\ (fm_end # "none" /\ fm_was_fixed) => fm_clicks = 0

\* --------------------------------------------------------------- C23
\* The steps of set_date_range and of its caller that the order is about.
MainEvents ==
    SelectSeq(dp_events, LAMBDA v : v.e \in {"open", "checked", "day", "apply", "scrape"})

\* The dialog opened, the mode checked, the start day clicked in the first
\* calendar, the end day in the second, Apply clicked, the tables scraped.
FullOrder ==
    <<Did("open"), Did("checked"), PickerEvent("day", 1, dp_start),
      PickerEvent("day", 2, dp_end), Did("apply"), Did("scrape")>>

HasEvent(e) == \E h \in 1..Len(dp_events) : dp_events[h].e = e

\* C23: set_date_range opens the dialog, checks the Fixed mode, clicks the
\* start day in the first calendar, then the end day in the second, and only
\* then Apply, after which its caller scrapes the tables; with fewer than two
\* calendars, or when a day selection raises, Apply is never clicked and the
\* tables are not scraped.
C23_FixedOrder ==
    /\ IsPrefix(MainEvents, FullOrder)
    /\ \A h \in 1..Len(dp_events) :
          dp_events[h].e \in {"options", "fixed_item"} =>
              /\ h > 1 /\ dp_events[1] = Did("open")
              /\ \A g \in 1..h : dp_events[g].e # "checked"
    /\ dp_cals \in {0, 1} =>
          /\ dp_pc = "raised" /\ dp_err = "RuntimeError"
          /\ ~HasEvent("day") /\ ~HasEvent("apply") /\ ~HasEvent("scrape")
    /\ (dp_pc = "raised" /\ dp_err = "RuntimeError") =>
          ~HasEvent("apply") /\ ~HasEvent("scrape")
    /\ dp_pc = "raised" => ~HasEvent("scrape")
    /\ dp_pc = "done" <=> HasEvent("scrape")

\* The whole order, with the mode switched on the way, for a range of two days.
C23_Witness ==
    /\ dp_pc = "done" /\ dp_start < dp_end
    /\ MainEvents = FullOrder
    /\ HasEvent("fixed_item")

\* --------------------------------------------------------------- C22
\* C22: whenever a turn of _shift_calendar_to_month reads the header of the
\* month-selection view, whose cells carry the English or the Spanish month
\* names of MONTH_MAP, it clicks the cell of the target's month.
C22_MonthCellClicked ==
    cell_obs.view = "year" => cell_obs.did = "month"

\* --------------------------------------------------------------- C21
\* What the last turn at a year-range header did: the year cell clicked when
\* the page shows the target's year, RuntimeError when it does not.
C21_RangeTurn ==
    cell_obs.view = "range" =>
        IF cell_obs.shown
        THEN /\ cell_obs.did = "year"
             /\ cal_clicked = "year"
             /\ cal_pc = "raised" => steps >= max_steps
        ELSE /\ cell_obs.did = "raise"
             /\ cal_pc = "raised" /\ cal_err = "RuntimeError"
             /\ cal_view = "multi-year"
             /\ day_clicks = 0 /\ cal_clicked # "day"

ReachesWithin(most) ==
    ideal_from \in 0..most =>
        /\ steps <= ideal_from + 1
        /\ cal_pc = "shift" =>
              MonthsApart(cal_year, cal_month, target) = ideal_from - steps
        /\ cal_pc \in {"day", "done"} =>
              /\ steps = ideal_from + 1
              /\ cal_year = target.year /\ cal_month = target.month
        /\ cal_pc = "raised" => seen_target

\* C19 as stated: _shift_calendar_to_month returns normally for every target
\* at most 48 months from the month shown.
C19_ReachesWithin48 == ReachesWithin(48)

\* C19 amended: it returns normally for every target at most 47 months from
\* the month shown; one 48 months away is not reached (the 48 turns are used
\* up by the 48 clicks, and the header is not read again).
C19_ReachesWithin47 == ReachesWithin(47)

\* The return on the 48th turn, after 47 clicks.
C19_Witness ==
    ideal_from = 47 /\ cal_pc = "day" /\ steps = 48 /\ seen_target

\* --------------------------------------------------------------- C20
\* C20: in day view with the header read, the previous button is clicked when
\* the target month is earlier than the month shown, the next button when it
\* is later, neither once the month shown is the target's; when the button
\* is missing or disabled the period button is clicked and not the button.
C20_NavigationDirection ==
    /\ nav_obs.lies = "here" =>
          nav_obs.did = "none" /\ cal_pc \in {"day", "done", "raised"}
    /\ (nav_obs.lies = "earlier" /\ ~nav_obs.blocked) => nav_obs.did = "previous"
    /\ (nav_obs.lies = "later" /\ ~nav_obs.blocked) => nav_obs.did = "next"
    /\ nav_obs.blocked => nav_obs.did = "period"
    /\ nav_obs.did \in {"previous", "next", "period"} => nav_obs.lies \in {"earlier", "later"}

\* The period button clicked at a disabled previous button, and the widget
\* gone to its year-range view.
C20_Witness ==
    /\ nav_obs = NavObs("earlier", TRUE, "period")
    /\ cal_view = "multi-year" /\ cal_pc = "shift"

\* --------------------------------------------------------------- C18
\* How far each routine has come: a number that every step of the routine
\* makes larger and that has an upper limit.
LookerProgress ==
    CASE lk_pc = "idle" -> 0
      [] lk_pc = "page" -> 50 * page_idx
      [] lk_pc = "scroll" -> 50 * page_idx + 1 + scroll_i
      [] lk_pc = "pager" -> 50 * page_idx + 42
      [] lk_pc = "return" -> 1000
      [] lk_pc = "done" -> 1001
      [] OTHER -> 1002

Ga4Progress ==
    CASE ga_pc \in {"idle", "table"} -> 0
      [] ga_pc = "page" -> 2 * current_page + 1
      [] ga_pc = "next" -> 2 * current_page
      [] ga_pc = "return" -> 1000
      [] ga_pc = "done" -> 1001
      [] OTHER -> 1002

CalProgress ==
    CASE cal_pc = "idle" -> 0
      [] cal_pc = "shift" -> steps
      [] cal_pc = "day" -> 100
      [] cal_pc = "done" -> 101
      [] OTHER -> 102

RoutinesProgress == LookerProgress + Ga4Progress + CalProgress

C18_Bounds ==
    /\ steps <= 48
    /\ cal_pc = "shift" => steps <= 48
    /\ (cal_pc = "raised" /\ steps = 48 /\ ~seen_target) => cal_err = "RuntimeError"
    /\ page_idx <= 10
    /\ lk_pc \in {"page", "scroll", "pager"} => page_idx < 10
    /\ scroll_i <= 40
    /\ current_page <= 100
    /\ RoutinesProgress <= 1002

\* C18: the loops are bounded and the routines end: _shift_calendar_to_month
\* makes at most 48 turns of its loop and then raises RuntimeError,
\* _scrape_table_for_language visits at most 10 pages with at most 40 scroll
\* passes each, scrape_data reads at most 100 pages, and every step of a
\* routine takes it nearer to its end.
C18_LoopsBounded ==
    /\ []C18_Bounds
    /\ [][RoutinesProgress' > RoutinesProgress]_vars

\* A page left by its 40th scroll pass, with the loop's counter below two.
C18_Witness ==
    /\ lk_pc = "pager" /\ scroll_i = 40 /\ ~rows_empty
    /\ consecutive_no_new_records < 2

\* --------------------------------------------------------------- C17
\* C17: called with start > end, run_scraper returns at once: no browser
\* session is made, no login or scraping step runs, nothing is collected and
\* no spreadsheet is written.
C17_InvalidRangeDoesNothing ==
    start > end =>
        /\ run_pc \in {"validate", "returned"}
        /\ driver = "none"
        /\ ops = <<>>
        /\ all_records = <<>>
        /\ exports = 0
        /\ ~sheet.written
        /\ run_exc = "none"

\* The return of a call with start after end.
C17_Witness == start > end /\ run_pc = "returned"

\* --------------------------------------------------------------- C16
\* C16: every record handed to the export has language "EN" or "FR", and the
\* source label "Looker Studio" when AnalyticsScraper produced it, "Google
\* Analytics" when GA4Scraper did.
C16_LanguageAndSource ==
    exports >= 1 =>
        /\ Len(ex_records) = Len(collected)
        /\ \A h \in 1..Len(ex_records) :
              /\ ex_records[h].language \in {"EN", "FR"}
              /\ collected[h].src = "looker" => ex_records[h].source = "Looker Studio"
              /\ collected[h].src = "ga4" => ex_records[h].source = "Google Analytics"

\* An export of a French Looker Studio record and a Google Analytics record.
C16_Witness ==
    /\ exports = 1 /\ sheet.written
    /\ \E h, k \in 1..Len(ex_records) :
          /\ collected[h].src = "looker" /\ ex_records[h].language = "FR"
          /\ collected[k].src = "ga4" /\ ex_records[k].language = "EN"

\* --------------------------------------------------------------- C13
\* The order of the browser operations that have returned: the session is
\* made once, before every other operation, and quit last; with "ga4" among
\* the sources the login comes before any report is opened; every Looker
\* Studio operation comes before every Google Analytics operation.
C13_Order ==
    /\ \A h \in 1..Len(ops) :
          /\ ops[h].op = "driver" <=> h = 1
          /\ ops[h].op = "quit" => h = Len(ops) /\ run_pc = "returned"
          /\ (ops[h].op = "open" /\ "ga4" \in sources) =>
                \E k \in 1..(h - 1) : ops[k].op = "login"
          /\ ops[h].op = "login" => h = 2
    /\ \A h, k \in 1..Len(ops) :
          (ops[h].src = "looker" /\ ops[k].src = "ga4") => h < k
    /\ driver = "none" => ops = <<>>

\* C13: run_scraper works on one browser session, one operation at a time:
\* the operations are ordered as C13_Order says, and no step of the run has
\* more than one operation return.
C13_OneSessionInSequence ==
    /\ []C13_Order
    /\ [][Len(ops') <= Len(ops) + 1 /\ IsPrefix(ops, ops')]_vars

\* A run that logged in, scraped both sources and quit the browser.
C13_Witness ==
    /\ run_pc = "returned" /\ driver = "quit" /\ sources = {"looker", "ga4"}
    /\ \E h, k \in 1..Len(ops) :
          /\ ops[h].op = "scrape" /\ ops[h].src = "looker"
          /\ ops[k].op = "scrape" /\ ops[k].src = "ga4"
    /\ ops[2].op = "login"

\* --------------------------------------------------------------- C12
\* C12: iter_dates(start, end) yields the days start, start + 1, ..., end,
\* ascending, each once, end - start + 1 of them, when start <= end; it raises
\* ValueError, and yields no date, when end < start.
C12_IterDatesYields ==
    /\ it_yielded = [h \in 1..Len(it_yielded) |-> it_start + h - 1]
    /\ \A h \in 1..Len(it_yielded) : it_yielded[h] <= it_end
    /\ it_pc = "done" =>
          /\ it_start <= it_end
          /\ Len(it_yielded) = it_end - it_start + 1
          /\ it_yielded = IterDates(it_start, it_end)
    /\ it_pc = "raised" => it_err = "ValueError" /\ it_end < it_start
    /\ it_end < it_start => it_yielded = <<>> /\ it_pc \in {"start", "raised"}

\* Three days or more yielded, and the generator at its end.
C12_Witness == it_pc = "done" /\ Len(it_yielded) >= 3 /\ it_start > 1

\* --------------------------------------------------------------- C11
\* C11: in range mode each selected source has its range set once, to
\* [start, end], and is scraped once; every record collected has date = end,
\* and the export is given range_start = start and range_end = end.
C11_RangeMode ==
    mode = "range" =>
        /\ \A src \in {"looker", "ga4"} :
              /\ IsPrefix(SrcOps(src), RangeOps(src))
              /\ src \notin sources => SrcOps(src) = <<>>
              /\ (src \in sources /\ run_pc = "returned" /\ start <= end /\ raised_in \in {"none", "export"})
                    => SrcOps(src) = RangeOps(src)
        /\ \A h \in 1..Len(all_records) : all_records[h].date = end
        /\ exports = 1 => ex_range_start = start /\ ex_range_end = end
        /\ \A h \in 1..Len(ops) :
              ops[h].op = "export" => ops[h].a = start /\ ops[h].b = end

\* A range of two days scraped from both sources and exported.
C11_Witness ==
    /\ mode = "range" /\ run_pc = "returned" /\ start < end /\ sheet.written
    /\ \E h, k \in 1..Len(collected) :
          collected[h].src = "looker" /\ collected[k].src = "ga4"

\* --------------------------------------------------------------- C10
\* C10: in per_day mode the records collected from one source hold at most
\* one record per (day, URL) pair.
C10_OneRecordPerDayAndUrl ==
    mode = "per_day" =>
        \A h, k \in 1..Len(all_records) :
            h # k =>
              ~ /\ all_records[h].source = all_records[k].source
                /\ all_records[h].date = all_records[k].date
                /\ all_records[h].url = all_records[k].url

\* ---------------------------------------------------------------- C8
\* C8: the sheet's columns are date, language, rank, url, views in that order,
\* followed by range_start, range_end exactly when both were passed and are
\* not None; every row has a cell under each of these columns and under no
\* other (the source label is not written).
C8_SheetColumns ==
    sheet.written =>
        /\ sheet.columns =
              BaseColumns \o (IF ex_range_start # None /\ ex_range_end # None
                              THEN <<"range_start", "range_end">> ELSE <<>>)
        /\ \A j \in 1..Len(sheet.data) :
              /\ Len(sheet.data[j]) = Len(sheet.columns)
              /\ \A c \in 1..Len(sheet.columns) : sheet.data[j][c] # NaN
              /\ \A c \in 1..Len(sheet.columns) :
                    sheet.data[j][c] # StrCell(ex_records[j].source)

\* A sheet of two rows written with a range_start and no range_end.
C8_Witness ==
    /\ sheet.written /\ Len(sheet.data) = 2
    /\ ex_range_start # None /\ ex_range_end = None

\* ---------------------------------------------------------------- C5
\* C5: _click_day clicks the day cell only after a header read found the day
\* view of the target's month and year, and clicks no day cell when it ends by
\* an exception (the RuntimeError of _shift_calendar_to_month among them).
C5_DayClickedOnlyAtTarget ==
    /\ cal_pc = "day" => seen_target
    /\ day_clicks > 0 => seen_target
    /\ cal_pc = "raised" => day_clicks = 0

\* The day cell clicked after the calendar was moved to the target month.
C5_Witness ==
    cal_pc = "done" /\ day_clicks = 1 /\ steps >= 3 /\ cal_clicked = "day"

\* ---------------------------------------------------------------- C2
\* C2: the list GA4Scraper.scrape_data returns holds no two records with the
\* same (rank, url) pair.
C2_Ga4ReturnedKeysUnique ==
    ga_pc = "done" =>
        \A m, n \in 1..Len(ga_result) : m # n => KeyOf(ga_result[m]) # KeyOf(ga_result[n])

====
